---------------------------- MODULE Spec2Model ----------------------------
(***************************************************************************)
(* Invoice extractor (t2.py): the GUI thread of InvoiceExtractorApp and    *)
(* the background ExtractorWorker, joined by Qt's queued signal delivery.  *)
(*                                                                         *)
(* The worker's signals (progress, row_extracted, error, finished) are     *)
(* posted to the GUI thread's event queue, modelled by `queue`; the GUI    *)
(* handles them one at a time, also from the nested event loop of a modal  *)
(* QMessageBox.  File contents, the PDF library and the Gemini service     *)
(* are inputs: each read and each inference call draws its result from a   *)
(* small set of outcomes.                                                  *)
(***************************************************************************)
EXTENDS Integers, Sequences, FiniteSets, TLC

VARIABLES
    apiKey,          \* GEMINI_API_KEY, the constant the build embeds
    pdf_files,       \* InvoiceExtractorApp.pdf_files
    start_enabled,   \* start_button.isEnabled()
    select_enabled,  \* select_button.isEnabled()
    export_enabled,  \* export_button.isEnabled()
    bar,             \* progress_bar.value()
    bar_visible,     \* progress_bar.isVisible()
    table,           \* rows of table_widget, each a sequence of 9 cells
    dialogs,         \* stack of open modal message boxes (titles)
    window,          \* "open", "closing" (closeEvent blocked in wait), "closed"
    thread_running,  \* self.thread.isRunning()
    pc,              \* position of ExtractorWorker.run
    i,               \* loop index of run (0-based, documents completed)
    is_running,      \* ExtractorWorker.is_running
    pdf_paths,       \* ExtractorWorker.pdf_paths
    full_text,       \* text read from the document in flight
    queue,           \* notifications emitted and not yet handled by the GUI
    emitted,         \* history: every notification the current run emitted
    received,        \* history: notifications the GUI handled in this run
    opened,          \* history: indices passed to pdfplumber.open
    calls,           \* history: generate_content calls (index, prompt)
    stopped_at,      \* history: documents entered when stop() ran, -1 if never
    configured,      \* history: "pending", "ok" or "failed" (lines 47-52)
    read_log         \* history: what each completed read gave

guiVars == <<apiKey, pdf_files, start_enabled, select_enabled, export_enabled,
             bar, bar_visible, table, dialogs, window>>
workerVars == <<pc, i, is_running, pdf_paths, full_text>>
histVars == <<emitted, opened, calls, stopped_at, configured, read_log>>
vars == <<apiKey, pdf_files, start_enabled, select_enabled, export_enabled,
          bar, bar_visible, table, dialogs, window, thread_running,
          pc, i, is_running, pdf_paths, full_text, queue, emitted, received,
          opened, calls, stopped_at, configured, read_log>>

---------------------------------------------------------------------------
\* Bounds

\* Longest list of files the file dialog returns.
MaxDocs == 2

---------------------------------------------------------------------------
\* Data

\* The values GEMINI_API_KEY can be built with: a key, unset, the placeholder.
ApiKeys == {"AIza-key", "", "YOUR_API_KEY_HERE"}

\* Paths, as sequences of components and separators.  Two of them share a
\* basename in different directories.
Paths == { <<"/", "a", "/", "inv1.pdf">>,
           <<"/", "b", "/", "inv1.pdf">>,
           <<"/", "a", "/", "inv2.pdf">> }

\* Texts pdfplumber can yield: empty, whitespace only, text with padding.
Texts == { <<>>, <<" ", "\n">>, <<"\n", "T", " ">> }

Whitespace == {" ", "\n"}

column_headers == <<"FileName", "VendorName", "InvoiceNumber", "InvoiceDate",
                    "Product", "SerialNumber", "GST", "CGST", "Total">>

Keys == {column_headers[c] : c \in 1..Len(column_headers)}

\* A parsed JSON object: every key of interest mapped to its value, or to
\* Absent when the object has no such key.
Absent == "<absent>"
NoData == [k \in Keys |-> Absent]
ObjFull == [k \in Keys |-> IF k = "FileName" THEN Absent ELSE "v"]
ObjPart == [k \in Keys |-> IF k = "VendorName" THEN "Acme" ELSE Absent]
ObjNamed == [k \in Keys |-> IF k = "FileName" THEN "bogus"
                            ELSE IF k = "Total" THEN "9" ELSE Absent]

\* Response text, as a sequence of tokens.
Tok(t, v) == [t |-> t, v |-> v]
FenceJson == Tok("fence_json", NoData)
Fence == Tok("fence", NoData)
Ws == Tok("ws", NoData)
Junk == Tok("junk", NoData)
JList == Tok("list", NoData)
JObj(d) == Tok("obj", d)

\* What the inference service can answer (besides raising).
Responses == { <<JObj(ObjFull)>>,
               <<Ws, FenceJson, Ws, JObj(ObjPart), Ws, Fence, Ws>>,
               <<Fence, JObj(ObjNamed), Fence>>,
               <<Junk>>,
               <<JObj(ObjFull), Junk>>,
               <<FenceJson, Fence>>,
               <<JList>> }

\* One notification.  idx is the 1-based position of the document it is
\* about (0 for none); the other fields are the payload.
Msg(type, idx, kind, file, value, data) ==
    [type |-> type, idx |-> idx, kind |-> kind, file |-> file,
     value |-> value, data |-> data]
ErrorMsg(idx, kind, file) == Msg("error", idx, kind, file, 0, NoData)
ProgressMsg(idx, value) == Msg("progress", idx, "", "", value, NoData)
RowMsg(idx, data) == Msg("row", idx, "", data["FileName"], 0, data)
FinishedMsg == Msg("finished", 0, "", "", 0, NoData)

---------------------------------------------------------------------------
\* Pure helpers

\* os.path.basename: what follows the last separator.
RECURSIVE basename(_)
basename(p) ==
    IF p = <<>> THEN ""
    ELSE IF p[Len(p)] = "/" THEN ""
    ELSE IF Len(p) = 1 THEN p[1]
    ELSE IF p[Len(p) - 1] = "/" THEN p[Len(p)]
    ELSE basename(SubSeq(p, 1, Len(p) - 1))

RECURSIVE LStrip(_)
LStrip(s) ==
    IF s = <<>> THEN <<>>
    ELSE IF s[1] \in Whitespace THEN LStrip(Tail(s)) ELSE s

RECURSIVE RStrip(_)
RStrip(s) ==
    IF s = <<>> THEN <<>>
    ELSE IF s[Len(s)] \in Whitespace THEN RStrip(SubSeq(s, 1, Len(s) - 1)) ELSE s

\* str.strip() of a text.
strip(s) == RStrip(LStrip(s))

\* not full_text.strip() (line 63).
IsBlankNoStrip(text) == text = <<>>
IsBlank(text) == strip(text) = <<>>

\* str.replace(tok, empty): drop every occurrence of a token.
RECURSIVE Remove(_, _)
Remove(s, t) ==
    IF s = <<>> THEN <<>>
    ELSE IF s[1].t = t THEN Remove(Tail(s), t)
    ELSE <<s[1]>> \o Remove(Tail(s), t)

\* response.text.strip(), then both replace calls that drop the markdown
\* fence markers (line 76).
StripTok(s) ==
    LET L == [n \in 1..Len(s) |-> s[n].t]
        first == IF \E n \in 1..Len(s) : L[n] # "ws"
                 THEN CHOOSE n \in 1..Len(s) :
                        L[n] # "ws" /\ \A m \in 1..(n - 1) : L[m] = "ws"
                 ELSE 1
        last == IF \E n \in 1..Len(s) : L[n] # "ws"
                THEN CHOOSE n \in 1..Len(s) :
                       L[n] # "ws" /\ \A m \in (n + 1)..Len(s) : L[m] = "ws"
                ELSE 0
    IN  SubSeq(s, first, last)
json_text(resp) == Remove(Remove(StripTok(resp), "fence_json"), "fence")

\* json.loads: whitespace around one JSON value; anything else raises.
json_loads(text) ==
    LET body == Remove(text, "ws")
    IN  IF Len(body) = 1 /\ body[1].t \in {"obj", "list"}
        THEN [ok |-> TRUE, isdict |-> body[1].t = "obj", v |-> body[1].v]
        ELSE [ok |-> FALSE, isdict |-> FALSE, v |-> NoData]

\* create_prompt: the template around the text.
create_prompt(text) == <<"Analyze the following invoice text">> \o text \o <<"---">>

\* int(((i + 1) / total_files) * 100), i 0-based.  Python computes it in
\* double precision; for total_files < 50 the result is the exact floor.
ProgressValueOffByOne(ix, total) == (ix * 100) \div total
ProgressValue(ix, total) == ((ix + 1) * 100) \div total


\* What opening and reading a PDF can give (lines 61-62): an exception, or
\* the concatenated text of its pages.
ReadResults == {[raised |-> TRUE, text |-> <<>>]}
               \cup {[raised |-> FALSE, text |-> t] : t \in Texts}

\* What generate_content and response.text can give (lines 75-76).
InferResults == {[raised |-> TRUE, text |-> <<>>]}
                \cup {[raised |-> FALSE, text |-> r] : r \in Responses}

\* Step 1 of the loop body (lines 60-70): the notifications emitted when the
\* document is given up, none when it goes on to step 2.
ReadFails(r) == r.raised \/ IsBlank(r.text)
ReadEmits(ix, path, r, total) ==
    IF r.raised
    THEN <<ErrorMsg(ix + 1, "read", basename(path)),
           ProgressMsg(ix + 1, ProgressValue(ix, total))>>
    ELSE IF IsBlank(r.text)
    THEN <<ErrorMsg(ix + 1, "notext", basename(path)),
           ProgressMsg(ix + 1, ProgressValue(ix, total))>>
    ELSE <<>>

\* Steps 2 and 3 (lines 74-84).  Assigning FileName raises on a JSON value
\* that is not an object, so only an object reaches row_extracted.emit.
InferOutcome(ix, path, r) ==
    LET parsed == json_loads(json_text(r.text))
    IN  IF ~r.raised /\ parsed.ok /\ parsed.isdict
        THEN RowMsg(ix + 1, [parsed.v EXCEPT !["FileName"] = basename(path)])
        ELSE ErrorMsg(ix + 1, "gemini", basename(path))
InferEmitsProgressFirst(ix, path, r, total) ==
    <<ProgressMsg(ix + 1, ProgressValue(ix, total)), InferOutcome(ix, path, r)>>
InferEmits(ix, path, r, total) ==
    <<InferOutcome(ix, path, r), ProgressMsg(ix + 1, ProgressValue(ix, total))>>

\* The index the loop goes on with after a document that failed: continue
\* (lines 66, 70) and the fall-through of the handler at line 80.
AfterFailureAbort(ix, total) == total
AfterFailure(ix, total) == ix + 1

\* The notification of a failure to configure the client (line 51).
ConfigFailEmitsNone == <<>>
ConfigFailEmits == <<ErrorMsg(0, "config", "")>>

\* str(data.get(col_name, N/A)) (line 243).
CellEmpty(data, col) == IF data[col] = Absent THEN "" ELSE data[col]
Cell(data, col) == IF data[col] = Absent THEN "N/A" ELSE data[col]

\* The row add_row_to_table builds (lines 242-244).
RowOf(data) == [c \in 1..Len(column_headers) |-> Cell(data, column_headers[c])]

\* table_widget.rowCount() > 0 (line 255).
CanExportAlways(tbl) == TRUE
CanExport(tbl) == Len(tbl) > 0

\* The lists QFileDialog.getOpenFileNames returns when files are chosen:
\* distinct paths, at most MaxDocs of them.
FileLists ==
    {fs \in UNION {[1..n -> Paths] : n \in 1..MaxDocs} :
        \A a, b \in 1..Len(fs) : a # b => fs[a] # fs[b]}

\* Documents whose iteration the worker has entered.
Entered == IF pc \in {"read", "infer"} THEN i + 1 ELSE i

---------------------------------------------------------------------------
\* Initial state: after InvoiceExtractorApp.__init__ and init_ui.

Init ==
    /\ apiKey \in ApiKeys
    /\ pdf_files = <<>>
    /\ start_enabled = FALSE
    /\ select_enabled = TRUE
    /\ export_enabled = FALSE
    /\ bar = -1
    /\ bar_visible = FALSE
    /\ table = <<>>
    /\ dialogs = <<>>
    /\ window = "open"
    /\ thread_running = FALSE
    /\ pc = "none"
    /\ i = 0
    /\ is_running = FALSE
    /\ pdf_paths = <<>>
    /\ full_text = <<>>
    /\ queue = <<>>
    /\ emitted = <<>>
    /\ received = <<>>
    /\ opened = {}
    /\ calls = <<>>
    /\ stopped_at = -1
    /\ configured = "pending"
    /\ read_log = <<>>

---------------------------------------------------------------------------
\* GUI thread

\* The user can press a button of the main window when no modal box is open.
CanClick == window = "open" /\ dialogs = <<>>

select_files ==
    /\ CanClick
    /\ select_enabled
    /\ \E files \in FileLists \cup {<<>>} :
        IF files # <<>>
        THEN /\ pdf_files' = files
             /\ start_enabled' = TRUE
             /\ table' = <<>>
             /\ export_enabled' = FALSE
        ELSE UNCHANGED <<pdf_files, start_enabled, table, export_enabled>>
    /\ UNCHANGED <<apiKey, select_enabled, bar, bar_visible, dialogs, window,
                   thread_running, queue, received>>
    /\ UNCHANGED workerVars
    /\ UNCHANGED histVars

start_extraction ==
    /\ CanClick
    /\ start_enabled
    /\ IF apiKey = "" \/ apiKey = "YOUR_API_KEY_HERE"
       THEN /\ dialogs' = <<"API Key Missing">> \o dialogs
            /\ UNCHANGED <<start_enabled, select_enabled, export_enabled, bar,
                           bar_visible, table, thread_running, queue, received>>
            /\ UNCHANGED workerVars
            /\ UNCHANGED histVars
       ELSE IF pdf_files = <<>>
       THEN /\ dialogs' = <<"No Files">> \o dialogs
            /\ UNCHANGED <<start_enabled, select_enabled, export_enabled, bar,
                           bar_visible, table, thread_running, queue, received>>
            /\ UNCHANGED workerVars
            /\ UNCHANGED histVars
       ELSE /\ start_enabled' = FALSE
            /\ select_enabled' = FALSE
            /\ export_enabled' = FALSE
            /\ bar' = 0
            /\ bar_visible' = TRUE
            /\ table' = <<>>
            /\ thread_running' = TRUE
            /\ pc' = "configure"
            /\ i' = 0
            /\ is_running' = TRUE
            /\ pdf_paths' = pdf_files
            /\ full_text' = <<>>
            /\ emitted' = <<>>
            /\ received' = <<>>
            /\ opened' = {}
            /\ calls' = <<>>
            /\ stopped_at' = -1
            /\ configured' = "pending"
            /\ read_log' = <<>>
            /\ UNCHANGED <<dialogs, queue>>
    /\ UNCHANGED <<apiKey, pdf_files, window>>

add_row_to_table(data) ==
    table' = Append(table, RowOf(data))

on_extraction_finished ==
    /\ thread_running' = FALSE
    /\ bar_visible' = FALSE
    /\ start_enabled' = TRUE
    /\ select_enabled' = TRUE
    /\ export_enabled' = (export_enabled \/ CanExport(table))
    /\ dialogs' = <<"Success">> \o dialogs

\* The GUI event loop (also the nested loop of an open message box) takes the
\* next queued notification and runs the slot connected to it (230-234).
Deliver ==
    /\ window = "open"
    /\ queue # <<>>
    /\ LET m == Head(queue) IN
        /\ queue' = Tail(queue)
        /\ received' = Append(received, m)
        /\ CASE m.type = "progress" ->
                  /\ bar' = m.value
                  /\ UNCHANGED <<table, dialogs, thread_running, bar_visible,
                                 start_enabled, select_enabled, export_enabled>>
             [] m.type = "row" ->
                  /\ add_row_to_table(m.data)
                  /\ UNCHANGED <<bar, dialogs, thread_running, bar_visible,
                                 start_enabled, select_enabled, export_enabled>>
             [] m.type = "error" ->
                  /\ dialogs' = <<"Processing Error">> \o dialogs
                  /\ UNCHANGED <<bar, table, thread_running, bar_visible,
                                 start_enabled, select_enabled, export_enabled>>
             [] m.type = "finished" ->
                  /\ on_extraction_finished
                  /\ UNCHANGED <<bar, table>>
    /\ UNCHANGED <<apiKey, pdf_files, window>>
    /\ UNCHANGED workerVars
    /\ UNCHANGED histVars

\* The user closes the message box on top.
DismissDialog ==
    /\ window = "open"
    /\ dialogs # <<>>
    /\ dialogs' = Tail(dialogs)
    /\ UNCHANGED <<apiKey, pdf_files, start_enabled, select_enabled,
                   export_enabled, bar, bar_visible, table, window,
                   thread_running, queue, received>>
    /\ UNCHANGED workerVars
    /\ UNCHANGED histVars

\* export_to_csv: nothing to export, or the save dialog is cancelled, or the
\* file is written, or writing fails.  The file itself is outside the state.
export_to_csv ==
    /\ CanClick
    /\ export_enabled
    /\ IF Len(table) = 0
       THEN dialogs' = <<"No Data">> \o dialogs
       ELSE \/ UNCHANGED dialogs
            \/ dialogs' = <<"Success">> \o dialogs
            \/ dialogs' = <<"Export Error">> \o dialogs
    /\ UNCHANGED <<apiKey, pdf_files, start_enabled, select_enabled,
                   export_enabled, bar, bar_visible, table, window,
                   thread_running, queue, received>>
    /\ UNCHANGED workerVars
    /\ UNCHANGED histVars

\* closeEvent: stop the worker, and if the thread runs, quit it and wait.
\* The thread ends once run has returned.  A close request can also come
\* from the window manager while a message box is open.
closeEvent ==
    /\ window = "open"
    /\ is_running' = IF pc # "none" THEN FALSE ELSE is_running
    /\ stopped_at' = IF pc # "none" /\ stopped_at = -1 THEN Entered
                     ELSE stopped_at
    /\ IF thread_running /\ pc # "done"
       THEN /\ window' = "closing"
            /\ UNCHANGED thread_running
       ELSE /\ window' = "closed"
            /\ thread_running' = FALSE
    /\ UNCHANGED <<apiKey, pdf_files, start_enabled, select_enabled,
                   export_enabled, bar, bar_visible, table, dialogs,
                   queue, received, pc, i, pdf_paths, full_text, emitted,
                   opened, calls, configured, read_log>>

\* thread.wait() of closeEvent returns, event.accept().
closeEventWaited ==
    /\ window = "closing"
    /\ pc = "done"
    /\ window' = "closed"
    /\ thread_running' = FALSE
    /\ UNCHANGED <<apiKey, pdf_files, start_enabled, select_enabled,
                   export_enabled, bar, bar_visible, table, dialogs,
                   queue, received>>
    /\ UNCHANGED workerVars
    /\ UNCHANGED histVars

---------------------------------------------------------------------------
\* Worker thread: ExtractorWorker.run

Emit(msgs) ==
    /\ queue' = queue \o msgs
    /\ emitted' = emitted \o msgs

\* Lines 47-49 succeed.
ConfigureOk ==
    /\ thread_running
    /\ pc = "configure"
    /\ pc' = "loop"
    /\ configured' = "ok"
    /\ UNCHANGED <<i, is_running, pdf_paths, full_text, queue, emitted,
                   received, opened, calls, stopped_at, read_log,
                   thread_running>>
    /\ UNCHANGED guiVars

\* Lines 50-52: configuring raises; error is emitted and run returns.
ConfigureFail ==
    /\ thread_running
    /\ pc = "configure"
    /\ Emit(ConfigFailEmits)
    /\ pc' = "done"
    /\ configured' = "failed"
    /\ UNCHANGED <<i, is_running, pdf_paths, full_text, received, opened,
                   calls, stopped_at, read_log, thread_running>>
    /\ UNCHANGED guiVars

\* Lines 55-57 and 61: the next document is taken, the flag is tested and
\* the document is opened.
LoopNext ==
    /\ thread_running
    /\ pc = "loop"
    /\ i < Len(pdf_paths)
    /\ is_running
    /\ pc' = "read"
    /\ opened' = opened \cup {i + 1}
    /\ UNCHANGED <<i, is_running, pdf_paths, full_text, queue, emitted,
                   received, calls, stopped_at, configured, read_log,
                   thread_running>>
    /\ UNCHANGED guiVars

\* The loop ends, by exhaustion or by break (line 57); line 86.
LoopExit ==
    /\ thread_running
    /\ pc = "loop"
    /\ (i >= Len(pdf_paths) \/ ~is_running)
    /\ Emit(<<FinishedMsg>>)
    /\ pc' = "done"
    /\ UNCHANGED <<i, is_running, pdf_paths, full_text, received, opened,
                   calls, stopped_at, configured, read_log, thread_running>>
    /\ UNCHANGED guiVars

\* Lines 60-70: the read completes.
ReadPdf ==
    /\ thread_running
    /\ pc = "read"
    /\ \E r \in ReadResults :
        /\ Emit(ReadEmits(i, pdf_paths[i + 1], r, Len(pdf_paths)))
        /\ read_log' = Append(read_log, [idx |-> i + 1, raised |-> r.raised,
                                         text |-> r.text])
        /\ IF ReadFails(r)
           THEN /\ i' = AfterFailure(i, Len(pdf_paths))
                /\ pc' = "loop"
                /\ UNCHANGED <<full_text, calls>>
           ELSE /\ full_text' = r.text
                /\ calls' = Append(calls, [idx |-> i + 1,
                                           prompt |-> create_prompt(r.text)])
                /\ pc' = "infer"
                /\ UNCHANGED i
    /\ UNCHANGED <<is_running, pdf_paths, received, opened, stopped_at,
                   configured, thread_running>>
    /\ UNCHANGED guiVars

\* Lines 75-84: the inference call returns or raises.
Infer ==
    /\ thread_running
    /\ pc = "infer"
    /\ \E r \in InferResults :
        /\ Emit(InferEmits(i, pdf_paths[i + 1], r, Len(pdf_paths)))
        /\ i' = IF InferOutcome(i, pdf_paths[i + 1], r).type = "error"
                THEN AfterFailure(i, Len(pdf_paths))
                ELSE i + 1
    /\ pc' = "loop"
    /\ full_text' = <<>>
    /\ UNCHANGED <<is_running, pdf_paths, received, opened, calls, stopped_at,
                   configured, read_log, thread_running>>
    /\ UNCHANGED guiVars

---------------------------------------------------------------------------

Next ==
    \/ select_files
    \/ start_extraction
    \/ Deliver
    \/ DismissDialog
    \/ export_to_csv
    \/ closeEvent
    \/ closeEventWaited
    \/ ConfigureOk
    \/ ConfigureFail
    \/ LoopNext
    \/ LoopExit
    \/ ReadPdf
    \/ Infer

Spec == Init /\ [][Next]_vars

---------------------------------------------------------------------------
\* Views of the histories

N == Len(pdf_paths)
OfType(seq, type) == SelectSeq(seq, LAMBDA m : m.type = type)
Progresses == OfType(emitted, "progress")
Rows == OfType(emitted, "row")
Errors == OfType(emitted, "error")
Finisheds == OfType(emitted, "finished")
\* The notifications about documents: outcomes and progress updates.
DocMsgs == SelectSeq(emitted, LAMBDA m : m.type \in {"row", "error", "progress"}
                                         /\ m.kind # "config")
Outcomes(k) == SelectSeq(emitted, LAMBDA m : m.type \in {"row", "error"}
                                             /\ m.idx = k)
NonDecreasing(seq) ==
    \A a, b \in 1..Len(seq) : a <= b => seq[a].value <= seq[b].value
AllWhitespace(text) == \A n \in 1..Len(text) : text[n] \in {" ", "\n"}
CallsFor(k) == {n \in 1..Len(calls) : calls[n].idx = k}
\* stop() ran before the last document was entered.
Cancelled == stopped_at >= 0 /\ stopped_at < N

---------------------------------------------------------------------------
\* C1, as stated: whenever ExtractorWorker.run has returned, it has emitted
\* exactly N progress updates, non-decreasing, the last one 100.
C1_EveryRunEmitsNProgress ==
    pc = "done" =>
        /\ Len(Progresses) = N
        /\ NonDecreasing(Progresses)
        /\ Len(Progresses) > 0 /\ Progresses[Len(Progresses)].value = 100

\* C1, amended: the progress updates of a run are always non-decreasing and
\* at most N; a run that configured the client and was not stopped before
\* its last document was entered has emitted, once returned, exactly N of
\* them, the last one 100.
C1_ProgressOfCompleteRun ==
    /\ NonDecreasing(Progresses)
    /\ Len(Progresses) <= N
    /\ (pc = "done" /\ configured = "ok" /\ ~Cancelled) =>
          /\ Len(Progresses) = N
          /\ Progresses[N].value = 100

\* A completed run over two documents, one failed and one extracted.
C1_Witness ==
    /\ pc = "done" /\ configured = "ok" /\ ~Cancelled
    /\ N = 2
    /\ Len(Errors) = 1 /\ Len(Rows) = 1
    /\ Len(Progresses) = 2
    /\ Progresses[1].value = 50

\* C2: in a run that is not cancelled, once run has returned, a failure of
\* document k (read, inference or parse) has not kept any later document
\* from being opened and from getting exactly one outcome, and finished was
\* emitted.
C2_FailureDoesNotAbort ==
    (pc = "done" /\ stopped_at = -1) =>
        \A k \in 1..N :
            (\E n \in 1..Len(Errors) : Errors[n].idx = k) =>
                /\ \A j \in (k + 1)..N : j \in opened /\ Len(Outcomes(j)) = 1
                /\ Len(Finisheds) = 1

\* The first document failed in the Gemini step, the second was extracted.
C2_Witness ==
    /\ pc = "done" /\ stopped_at = -1
    /\ N = 2
    /\ Len(Outcomes(1)) = 1 /\ Outcomes(1)[1].kind = "gemini"
    /\ Len(Outcomes(2)) = 1 /\ Outcomes(2)[1].type = "row"

\* C3: the notifications about documents come in pairs, in input order: the
\* outcome of document k (one row or one error, never both or neither), then
\* the progress update of document k; every document whose iteration has
\* ended has its pair; and the GUI has received a prefix of what was emitted,
\* the rest being queued in the order of emission.
C3_OneOutcomePerDocumentInOrder ==
    /\ \A n \in 1..Len(DocMsgs) :
          /\ DocMsgs[n].idx = (n + 1) \div 2
          /\ (n % 2 = 1) => DocMsgs[n].type \in {"row", "error"}
          /\ (n % 2 = 0) => DocMsgs[n].type = "progress"
    /\ Len(DocMsgs) % 2 = 0
    /\ configured = "ok" => Len(DocMsgs) = 2 * i
    /\ window = "open" => received \o queue = emitted

\* A run over two documents gave an error then a row, and the GUI has
\* received everything.
C3_Witness ==
    /\ N = 2 /\ pc = "done"
    /\ Len(DocMsgs) = 4
    /\ DocMsgs[1].type = "error" /\ DocMsgs[3].type = "row"
    /\ received = emitted

\* C4: a document whose extracted text is empty or only whitespace gets an
\* error naming the file and no row, and generate_content is not called
\* for it.
C4_BlankTextFailsWithoutInference ==
    \A n \in 1..Len(read_log) :
        LET r == read_log[n] IN
        (~r.raised /\ AllWhitespace(r.text)) =>
            /\ Len(Outcomes(r.idx)) = 1
            /\ Outcomes(r.idx)[1].type = "error"
            /\ Outcomes(r.idx)[1].file = basename(pdf_paths[r.idx])
            /\ CallsFor(r.idx) = {}

\* A document whose text is whitespace only was read.
C4_Witness ==
    \E n \in 1..Len(read_log) :
        /\ ~read_log[n].raised
        /\ read_log[n].text = <<" ", "\n">>
        /\ Len(Outcomes(read_log[n].idx)) = 1

\* C5, as stated: at most N records are emitted and the FileName of each
\* matches exactly one document of the input list.
C5_FileNameMatchesOneDocument ==
    /\ Len(Rows) <= N
    /\ \A n \in 1..Len(Rows) :
          Cardinality({k \in 1..N :
                         basename(pdf_paths[k]) = Rows[n].data["FileName"]}) = 1

\* C6: with a missing or placeholder key no worker is ever started and the
\* only message boxes are the ones reporting the key; when configuring the
\* client fails in run, the error notification is the only thing emitted, it
\* is queued for or handled by the GUI, and no document is opened, no
\* inference call made, no row or progress update emitted.
C6_ConfigurationErrorIsFatal ==
    /\ (apiKey = "" \/ apiKey = "YOUR_API_KEY_HERE") =>
          /\ pc = "none" /\ ~thread_running
          /\ emitted = <<>> /\ opened = {} /\ calls = <<>>
          /\ table = <<>> /\ bar = -1
          /\ \A n \in 1..Len(dialogs) : dialogs[n] = "API Key Missing"
    /\ configured = "failed" =>
          /\ pc = "done"
          /\ Len(emitted) = 1
          /\ emitted[1].type = "error" /\ emitted[1].kind = "config"
          /\ opened = {} /\ calls = <<>> /\ read_log = <<>>
          /\ table = <<>> /\ bar = 0
          /\ window = "open" => (queue = emitted \/ received = emitted)

\* Configuring failed and the GUI shows the error.
C6_Witness ==
    /\ configured = "failed"
    /\ received = emitted /\ Len(received) = 1
    /\ dialogs = <<"Processing Error">>

\* The key is the placeholder and the start button was pressed.
C6_WitnessKey ==
    /\ apiKey = "YOUR_API_KEY_HERE"
    /\ dialogs = <<"API Key Missing">>

\* The part of C7 about documents: after stop(), no document beyond those
\* already entered is opened, sent to the service or given an outcome or a
\* progress update, and once run has returned with the client configured,
\* every entered document has its outcome and its progress update.
C7_StopSparesOnlyEnteredDocuments ==
    stopped_at >= 0 =>
        /\ \A k \in opened : k <= stopped_at
        /\ \A n \in 1..Len(calls) : calls[n].idx <= stopped_at
        /\ \A n \in 1..Len(emitted) : emitted[n].idx <= stopped_at
        /\ (pc = "done" /\ configured = "ok") =>
              /\ \A k \in 1..stopped_at : Len(Outcomes(k)) = 1
              /\ Len(Progresses) = stopped_at

\* C7, as stated: the above, and once run has returned after stop(), the
\* worker has emitted finished.
C7_StopThenFinished ==
    /\ C7_StopSparesOnlyEnteredDocuments
    /\ (stopped_at >= 0 /\ pc = "done") => Len(Finisheds) = 1

\* C7 fails only where configuring the client failed.
C7_FailsOnlyOnConfigFailure ==
    configured # "failed" => C7_StopThenFinished

\* stop() ran while the first of two documents was in flight.
C7_WitnessInFlight ==
    /\ stopped_at = 1 /\ N = 2 /\ pc = "done"
    /\ Len(Outcomes(1)) = 1 /\ Len(Finisheds) = 1

\* C8: at the step in which the GUI handles finished, the table holds one
\* row per row_extracted of the run, in order, none for an error; each row
\* has nine cells, the value of the record for the column or N/A when the
\* record has none, the first being the basename of the document.
ExpectedCell(data, col) == IF data[col] = "<absent>" THEN "N/A" ELSE data[col]
TableMatches(tbl) ==
    /\ Len(tbl) = Len(Rows)
    /\ \A n \in 1..Len(Rows) :
          /\ Len(tbl[n]) = 9
          /\ tbl[n][1] = basename(pdf_paths[Rows[n].idx])
          /\ \A c \in 2..9 :
                tbl[n][c] = ExpectedCell(Rows[n].data, column_headers[c])
          /\ \A m \in 1..Len(Rows) : n < m => Rows[n].idx < Rows[m].idx
FinishedHandled(rcv) == Len(OfType(rcv, "finished")) = 1
C8_TableAtFinish ==
    [][(~FinishedHandled(received) /\ FinishedHandled(received'))
          => TableMatches(table')]_vars

\* The end-to-end scenario: the first document is extracted from a fenced
\* answer that names only the vendor, the second gives no text; finished is
\* handled and the table has one row.
C8_Witness ==
    /\ N = 2 /\ FinishedHandled(received)
    /\ Len(Outcomes(1)) = 1 /\ Outcomes(1)[1].type = "row"
    /\ Len(Outcomes(2)) = 1 /\ Outcomes(2)[1].kind = "notext"
    /\ table = << <<basename(pdf_paths[1]), "Acme", "N/A", "N/A", "N/A",
                    "N/A", "N/A", "N/A", "N/A">> >>

\* C9, as a final result: whenever run has returned, finished has been
\* emitted exactly once.
C9_RunEndsWithFinished ==
    pc = "done" => Len(Finisheds) = 1

\* C9 fails only where configuring the client failed.
C9_FailsOnlyOnConfigFailure ==
    (pc = "done" /\ configured # "failed") => Len(Finisheds) = 1

\* C10: while a run is in progress (a worker was started and its finished
\* has not been handled) the start and select buttons are disabled and the
\* input list is the one the worker was given; the export button is enabled
\* only when no run is in progress and the table has a row.
RunInProgress == pc # "none" /\ ~FinishedHandled(received)
C10_OneRunAndExportGuard ==
    /\ RunInProgress =>
          /\ ~start_enabled /\ ~select_enabled
          /\ pdf_files = pdf_paths
    /\ export_enabled => (~RunInProgress /\ Len(table) > 0)
    /\ thread_running => RunInProgress

\* A run has been handled to its end and the export button is enabled.
C10_Witness ==
    /\ export_enabled /\ start_enabled /\ select_enabled
    /\ pc = "done" /\ Len(table) = 1 /\ Len(Errors) = 1

============================================================================
